---- MODULE Spec2Model ----
(***************************************************************************)
(* envParse of standard-env (structured.ts): the recursive walk over a     *)
(* configuration definition that resolves every leaf against an            *)
(* environment map, accumulates issues and vendor names, and either        *)
(* returns the assembled object or throws one aggregated error.            *)
(*                                                                         *)
(* JavaScript values are tagged records: Undefined, Str(s), Num(n) and     *)
(* Obj(fields), where fields is a function from the object's keys.  A      *)
(* message is kept as the sequence of the pieces a template literal        *)
(* concatenates, so that "prefixed by" and "mentions" stay checkable.      *)
(***************************************************************************)
EXTENDS Integers, Sequences, FiniteSets, TLC

VARIABLES
    config,     \* the definition passed to envParse (the entries of its top object)
    env,        \* the environment map passed to envParse
    stack,      \* the active processConfig calls, innermost last
    result,     \* the object being assembled
    issues,     \* the call-wide issue list
    vendors,    \* the call-wide vendor set, in insertion order
    outcome,    \* "running", "returned", or the name of the error thrown
    thrown,     \* the error thrown, Undefined while there is none
    visited,    \* history: one record for each leaf handled, in order
    earlier     \* history: how the call before this one ended, "none" for the first

vars == <<config, env, stack, result, issues, vendors, outcome, thrown, visited,
          earlier>>

(* ------------------------------ bounds --------------------------------- *)

\* Largest number of nodes (leaves and nested groups) in a definition.
MaxNodes == 3

\* Largest number of nodes in a definition when calls follow one another.
MaxCallNodes == 1

(* --------------------------- JavaScript values ------------------------- *)

Undefined == [type |-> "undefined"]

Str(s) == [type |-> "string", value |-> s]

Num(n) == [type |-> "number", value |-> n]

Obj(f) == [type |-> "object", fields |-> f]

EmptyObject == Obj(<<>>)

\* A Promise returned by an asynchronous validate function.
PromiseValue == [type |-> "promise"]

(* ------------------------- validator adapters -------------------------- *)

\* What the numeric-string parser yields for the strings that parse.
ParseNumeric(s) == IF s = "3000" THEN 3000 ELSE 0

IsNumericString(s) == s \in {"3000"}

\* The validate functions of the adapters, by name; the adapters are the
\* caller's, envParse only calls them.  A result is a record with a value,
\* with issues, or with both; a Promise; or undefined.  "numeric" parses a
\* numeric string to its number and reports one issue for another string,
\* two for the empty string; "lax" answers undefined for the empty string
\* and an empty issue list next to a value for a non-numeric one.
Validate(kind, raw) ==
    CASE kind = "numeric" ->
           IF IsNumericString(raw)
             THEN [value |-> Num(ParseNumeric(raw))]
             ELSE IF raw = ""
               THEN [issues |-> << [message |-> <<"must be non-empty">>,
                                    path |-> <<"length">>],
                                   [message |-> <<"must be a numeric string">>] >>]
               ELSE [issues |-> << [message |-> <<"must be a numeric string">>] >>]
      [] kind = "string" -> [value |-> Str(raw)]
      [] kind = "async" -> PromiseValue
      [] kind = "lax" ->
           IF raw = "" THEN [value |-> Undefined]
           ELSE IF IsNumericString(raw) THEN [value |-> Num(ParseNumeric(raw))]
           ELSE [issues |-> <<>>, value |-> Str(raw)]
      [] OTHER -> Undefined

\* format values: an object with a "~standard" descriptor, or without one.
Schema(vendor, validate) ==
    [standard |-> [vendor |-> vendor, validate |-> validate]]

ArktypeNumeric == Schema(Str("arktype"), "numeric")

ZodString == Schema(Str("zod"), "string")

ZodAsync == Schema(Str("zod"), "async")

ValibotLax == Schema(Str("valibot"), "lax")

\* A descriptor with neither a vendor string nor a validate function.
NoValidate == Schema(Undefined, "missing")

\* A format that is not a Standard Schema at all.
NoStandard == [standard |-> Undefined]

(* ------------------------------ inputs --------------------------------- *)

ConfigProperty(format, default, envName, optional) ==
    [format |-> format, default |-> default, env |-> envName,
     optional |-> optional]

Properties ==
    { ConfigProperty(ArktypeNumeric, Num(8080), "PORT", FALSE),
      ConfigProperty(ArktypeNumeric, Undefined, "PORT", TRUE),
      ConfigProperty(ZodString, Undefined, "NODE_ENV", FALSE),
      ConfigProperty(ZodAsync, Undefined, "NODE_ENV", FALSE),
      ConfigProperty(NoStandard, Undefined, "NODE_ENV", FALSE),
      ConfigProperty(NoValidate, Undefined, "NODE_ENV", FALSE),
      ConfigProperty(ValibotLax, Undefined, "PORT", FALSE),
      ConfigProperty(ValibotLax, Undefined, "PORT", TRUE) }

\* The environment maps: a variable is absent (undefined) or a string.
Envs ==
    { [PORT |-> p, NODE_ENV |-> n] :
        p \in {Undefined, Str("3000"), Str("nope"), Str("")},
        n \in {Undefined, Str("production")} }

\* Keys of a group, by position: the keys of one object are distinct.
Keys == <<"a", "b", "c", "d", "e", "f">>

Group(entries) == [entries |-> entries]

\* Sequences of nodes (without keys yet) having n nodes in total.
RECURSIVE Forests(_)
Forests(n) ==
    IF n = 0 THEN {<<>>}
    ELSE { <<p>> \o rest : p \in Properties, rest \in Forests(n - 1) }
         \cup UNION { { <<Group(inner)>> \o rest :
                          inner \in Forests(j), rest \in Forests(n - 1 - j) }
                      : j \in 0..(n - 1) }

RECURSIVE Keyed(_)
Keyed(nodes) ==
    [i \in DOMAIN nodes |->
        [key |-> Keys[i],
         value |-> IF "entries" \in DOMAIN nodes[i]
                     THEN Group(Keyed(nodes[i].entries))
                     ELSE nodes[i]]]

\* The configuration definitions: a definition is the entry list of its
\* top-level object.
Configs == UNION { { Keyed(f) : f \in Forests(n) } : n \in 0..MaxNodes }

\* The definitions passed to the calls of a sequence of calls.
CallConfigs ==
    UNION { { Keyed(f) : f \in Forests(n) } : n \in 0..MaxCallNodes }

(* ------------------------------ objects -------------------------------- *)

\* SetAt losing the target: the key is always written at the top level.
SetAt_Root(obj, path, key, value) ==
    Obj([k \in (DOMAIN obj.fields) \cup {key} |->
            IF k = key THEN value ELSE obj.fields[k]])

\* target[key] = value, where target is the object at path inside obj.
RECURSIVE SetAt(_, _, _, _)
SetAt(obj, path, key, value) ==
    IF path = <<>>
      THEN Obj([k \in (DOMAIN obj.fields) \cup {key} |->
                   IF k = key THEN value ELSE obj.fields[k]])
      ELSE Obj([k \in DOMAIN obj.fields |->
                   IF k = Head(path)
                     THEN SetAt(obj.fields[k], Tail(path), key, value)
                     ELSE obj.fields[k]])

RECURSIVE HasAt(_, _)
HasAt(obj, path) ==
    /\ path # <<>>
    /\ obj.type = "object"
    /\ Head(path) \in DOMAIN obj.fields
    /\ \/ Len(path) = 1
       \/ HasAt(obj.fields[Head(path)], Tail(path))

RECURSIVE GetAt(_, _)
GetAt(obj, path) ==
    IF path = <<>> THEN obj ELSE GetAt(obj.fields[Head(path)], Tail(path))

(* ------------------------------ envParse ------------------------------- *)

isConfigProperty(value) ==
    /\ "format" \in DOMAIN value
    /\ "env" \in DOMAIN value

\* SetAdd on an array instead of a Set: duplicates are kept.
SetAdd_Duplicates(set, v) == Append(set, v)

\* vendors.add(vendor) on a Set, which keeps insertion order.
SetAdd(set, v) ==
    IF \E i \in DOMAIN set : set[i] = v THEN set ELSE Append(set, v)

\* recordVendor placed after the early returns: only a leaf whose variable
\* is present records its vendor.
recordVendor_WhenPresent(property, vendorsIn) ==
    LET standardProps == property.format.standard
    IN  IF /\ env[property.env] # Undefined
           /\ standardProps # Undefined
           /\ standardProps.vendor.type = "string"
          THEN SetAdd(vendorsIn, standardProps.vendor.value)
          ELSE vendorsIn

\* The first statements of validateProperty: the vendor set after them.
recordVendor(property, vendorsIn) ==
    LET standardProps == property.format.standard
    IN  IF standardProps # Undefined /\ standardProps.vendor.type = "string"
          THEN SetAdd(vendorsIn, standardProps.vendor.value)
          ELSE vendorsIn

\* How validateProperty ends: kind "return" with the property's issues and
\* value, or the name of what it throws; called tells whether the adapter's
\* validate function was invoked.
Return(propertyIssues, value, called) ==
    [kind |-> "return", issues |-> propertyIssues, value |-> value,
     called |-> called]

\* Throw turned into an ordinary issue of the leaf.
Throw_AsIssue(name, called) ==
    [kind |-> "return", issues |-> << [message |-> <<name>>] >>,
     value |-> Undefined, called |-> called]

Throw(name, called) ==
    [kind |-> name, issues |-> <<>>, value |-> Undefined, called |-> called]

\* validateMissing returning the default branch without its value.
validateMissing_DefaultLost(property) ==
    IF property.default # Undefined \/ property.optional
      THEN Return(<<>>, Undefined, FALSE)
      ELSE Return(<< [message |-> <<"Required environment variable ",
                                    property.env,
                                    " is not set and no default provided">>,
                      path |-> <<property.env>>] >>,
                  Undefined, FALSE)

\* validateMissing treating every property without default as optional.
validateMissing_NeverRequired(property) ==
    IF property.default # Undefined
      THEN Return(<<>>, property.default, FALSE)
      ELSE Return(<<>>, Undefined, FALSE)

\* validateProperty when the environment variable is not set.
validateMissing(property) ==
    IF property.default # Undefined
      THEN Return(<<>>, property.default, FALSE)
    ELSE IF property.optional
      THEN Return(<<>>, Undefined, FALSE)
    ELSE Return(<< [message |-> <<"Required environment variable ",
                                  property.env,
                                  " is not set and no default provided">>,
                    path |-> <<property.env>>] >>,
                Undefined, FALSE)

notCompliant(property) ==
    [message |-> <<"Validator for ", property.env,
                   " is not Standard Schema compliant">>,
     path |-> <<property.env>>]

\* scopeIssues keeping the adapter's message and only prefixing the path.
scopeIssues_BareMessage(property, resultIssues) ==
    [i \in DOMAIN resultIssues |->
        LET issue == resultIssues[i]
        IN  [message |-> issue.message,
             path |-> IF "path" \in DOMAIN issue
                        THEN <<property.env>> \o issue.path
                        ELSE <<property.env>>]]

\* The issues of a validation result, scoped to the environment variable.
scopeIssues(property, resultIssues) ==
    [i \in DOMAIN resultIssues |->
        LET issue == resultIssues[i]
        IN  [message |-> <<property.env, ": ">> \o issue.message,
             path |-> IF "path" \in DOMAIN issue
                        THEN <<property.env>> \o issue.path
                        ELSE <<property.env>>]]

\* validatePresent falling back to the default or to optional when the
\* adapter reports issues.
validatePresent_Fallback(property, envValue) ==
    LET standardProps == property.format.standard
    IN  IF standardProps = Undefined
          THEN Return(<<notCompliant(property)>>, Undefined, FALSE)
        ELSE IF standardProps.validate = "missing"
          THEN Throw("TypeError", FALSE)
        ELSE LET validationResult ==
                     Validate(standardProps.validate, envValue.value)
             IN  IF validationResult = Undefined
                   THEN Return(<<notCompliant(property)>>, Undefined, TRUE)
                 ELSE IF validationResult = PromiseValue
                   THEN Throw("AsyncValidationError", TRUE)
                 ELSE IF "issues" \in DOMAIN validationResult
                   THEN IF property.default # Undefined \/ property.optional
                          THEN Return(<<>>, property.default, TRUE)
                          ELSE Return(scopeIssues(property,
                                                  validationResult.issues),
                                      Undefined, TRUE)
                 ELSE Return(<<>>, validationResult.value, TRUE)

\* validatePresent taking an empty issue list for success: the value of
\* the result is returned (if (validationResult.issues?.length)).
validatePresent_EmptyIssuesValue(property, envValue) ==
    LET standardProps == property.format.standard
    IN  IF standardProps = Undefined
          THEN Return(<<notCompliant(property)>>, Undefined, FALSE)
        ELSE IF standardProps.validate = "missing"
          THEN Throw("TypeError", FALSE)
        ELSE LET validationResult ==
                     Validate(standardProps.validate, envValue.value)
             IN  IF validationResult = Undefined
                   THEN Return(<<notCompliant(property)>>, Undefined, TRUE)
                 ELSE IF validationResult = PromiseValue
                   THEN Throw("AsyncValidationError", TRUE)
                 ELSE IF /\ "issues" \in DOMAIN validationResult
                         /\ validationResult.issues # <<>>
                   THEN Return(scopeIssues(property, validationResult.issues),
                               Undefined, TRUE)
                 ELSE Return(<<>>, validationResult.value, TRUE)

\* validateProperty when the environment variable is set to envValue.
\* standardProps?.validate(envValue) is undefined without a descriptor, and
\* a call of undefined, hence a TypeError, for a descriptor without validate.
validatePresent(property, envValue) ==
    LET standardProps == property.format.standard
    IN  IF standardProps = Undefined
          THEN Return(<<notCompliant(property)>>, Undefined, FALSE)
        ELSE IF standardProps.validate = "missing"
          THEN Throw("TypeError", FALSE)
        ELSE LET validationResult ==
                     Validate(standardProps.validate, envValue.value)
             IN  IF validationResult = Undefined
                   THEN Return(<<notCompliant(property)>>, Undefined, TRUE)
                 ELSE IF validationResult = PromiseValue
                   THEN Throw("AsyncValidationError", TRUE)
                 ELSE IF "issues" \in DOMAIN validationResult
                   THEN Return(scopeIssues(property, validationResult.issues),
                               Undefined, TRUE)
                 ELSE Return(<<>>, validationResult.value, TRUE)

\* validateProperty taking the empty string for a missing variable.
validateProperty_EmptyIsMissing(property, envVars) ==
    LET envValue == envVars[property.env]
    IN  IF envValue = Undefined \/ envValue = Str("")
          THEN validateMissing(property)
          ELSE validatePresent(property, envValue)

\* validateProperty preferring the default to the environment.
validateProperty_DefaultFirst(property, envVars) ==
    LET envValue == envVars[property.env]
    IN  IF envValue = Undefined \/ property.default # Undefined
          THEN validateMissing(property)
          ELSE validatePresent(property, envValue)

validateProperty(property, envVars) ==
    LET envValue == envVars[property.env]
    IN  IF envValue = Undefined
          THEN validateMissing(property)
          ELSE validatePresent(property, envValue)

\* assignValue without the test: the key is always written.
assignValue_Always(res, target, key, property, validatedValue) ==
    SetAt(res, target, key, validatedValue)

\* assignValue writing defined values only.
assignValue_DefinedOnly(res, target, key, property, validatedValue) ==
    IF validatedValue # Undefined
      THEN SetAt(res, target, key, validatedValue)
      ELSE res

\* The last statement of handleConfigProperty: target[key] = validatedValue
\* unless the value is undefined and the property optional.
assignValue(res, target, key, property, validatedValue) ==
    IF validatedValue # Undefined \/ ~property.optional
      THEN SetAt(res, target, key, validatedValue)
      ELSE res

\* pushIssues assigning instead of appending.
pushIssues_Replace(allIssues, propertyIssues) == propertyIssues

\* pushIssues putting the new issues in front (unshift).
pushIssues_Prepend(allIssues, propertyIssues) == propertyIssues \o allIssues

\* pushIssues keeping only the first issue of the leaf.
pushIssues_FirstOnly(allIssues, propertyIssues) ==
    allIssues \o SubSeq(propertyIssues, 1, 1)

\* issues.push(...propertyIssues)
pushIssues(allIssues, propertyIssues) == allIssues \o propertyIssues

\* One processConfig call: target is the path of its target object, which
\* is also the path of its configObj in the definition; i is the position
\* of its loop.
Frame(target) == [i |-> 1, target |-> target]

Top == stack[Len(stack)]

RECURSIVE ConfigAt(_, _)
ConfigAt(entries, path) ==
    IF path = <<>> THEN entries
    ELSE LET e == CHOOSE x \in { entries[i] : i \in DOMAIN entries } :
                      x.key = Head(path)
         IN  ConfigAt(e.value.entries, Tail(path))

configObj == ConfigAt(config, Top.target)

Running == outcome = "running" /\ stack # <<>>

AtEntry == Running /\ Top.i <= Len(configObj)

Entry == configObj[Top.i]

Advance(s) == [s EXCEPT ![Len(s)].i = @ + 1]

\* The record kept of one visit of a leaf: its output position, its
\* property, the issues it recorded and whether validate was invoked.
Visit(leaf, property, r) ==
    [leaf |-> leaf, property |-> property, issues |-> r.issues,
     called |-> r.called]

Init ==
    /\ config \in Configs
    /\ env \in Envs
    /\ stack = <<Frame(<<>>)>>
    /\ result = EmptyObject
    /\ issues = <<>>
    /\ vendors = <<>>
    /\ outcome = "running"
    /\ thrown = Undefined
    /\ visited = <<>>
    /\ earlier = "none"

\* handleConfigProperty consuming the variable it has read: the entry is
\* removed from the environment map.
handleConfigProperty_ConsumesEnv ==
    /\ AtEntry
    /\ isConfigProperty(Entry.value)
    /\ LET key == Entry.key
           property == Entry.value
           r == validateProperty(property, env)
       IN  /\ r.kind = "return"
           /\ vendors' = recordVendor(property, vendors)
           /\ visited' = Append(visited, Visit(Top.target \o <<key>>, property, r))
           /\ IF Len(r.issues) > 0
                THEN /\ issues' = pushIssues(issues, r.issues)
                     /\ result' = result
                ELSE /\ issues' = issues
                     /\ result' = assignValue(result, Top.target, key,
                                              property, r.value)
           /\ stack' = Advance(stack)
           /\ env' = [env EXCEPT ![property.env] = Undefined]
    /\ UNCHANGED <<config, outcome, thrown, earlier>>

\* One leaf: handleConfigProperty with the validateProperty call it makes.
handleConfigProperty ==
    /\ AtEntry
    /\ isConfigProperty(Entry.value)
    /\ LET key == Entry.key
           property == Entry.value
           r == validateProperty(property, env)
       IN  /\ r.kind = "return"
           /\ vendors' = recordVendor(property, vendors)
           /\ visited' = Append(visited, Visit(Top.target \o <<key>>, property, r))
           /\ IF Len(r.issues) > 0
                THEN /\ issues' = pushIssues(issues, r.issues)
                     /\ result' = result
                ELSE /\ issues' = issues
                     /\ result' = assignValue(result, Top.target, key,
                                              property, r.value)
           /\ stack' = Advance(stack)
    /\ UNCHANGED <<config, env, outcome, thrown, earlier>>

\* One leaf whose validateProperty call throws: the exception unwinds the
\* whole call.
handleConfigPropertyThrows ==
    /\ AtEntry
    /\ isConfigProperty(Entry.value)
    /\ LET property == Entry.value
           r == validateProperty(property, env)
       IN  /\ r.kind # "return"
           /\ vendors' = recordVendor(property, vendors)
           /\ visited' = Append(visited,
                             Visit(Top.target \o <<Entry.key>>, property, r))
           /\ outcome' = r.kind
           /\ thrown' = [name |-> r.kind]
    /\ stack' = <<>>
    /\ UNCHANGED <<config, env, result, issues, earlier>>

\* processConfigNested creating no object for a group without entries.
processConfigNested_SkipEmpty ==
    /\ AtEntry
    /\ ~isConfigProperty(Entry.value)
    /\ result' = IF Entry.value.entries = <<>>
                   THEN result
                   ELSE SetAt(result, Top.target, Entry.key, EmptyObject)
    /\ stack' = Append(Advance(stack),
                       Frame(Top.target \o <<Entry.key>>))
    /\ UNCHANGED <<config, env, issues, vendors, outcome, thrown, visited,
                   earlier>>

\* One nested group: target[key] = {} and the recursive call is entered.
processConfigNested ==
    /\ AtEntry
    /\ ~isConfigProperty(Entry.value)
    /\ result' = SetAt(result, Top.target, Entry.key, EmptyObject)
    /\ stack' = Append(Advance(stack),
                       Frame(Top.target \o <<Entry.key>>))
    /\ UNCHANGED <<config, env, issues, vendors, outcome, thrown, visited,
                   earlier>>

\* The loop of a recursive processConfig call ends: back to the caller.
processConfigReturn ==
    /\ Running
    /\ Top.i > Len(configObj)
    /\ Len(stack) > 1
    /\ stack' = SubSeq(stack, 1, Len(stack) - 1)
    /\ UNCHANGED <<config, env, result, issues, vendors, outcome, thrown,
                   visited, earlier>>

RECURSIVE Join(_)
Join(names) ==
    IF names = <<>> THEN ""
    ELSE IF Len(names) = 1 THEN names[1]
    ELSE names[1] \o "," \o Join(Tail(names))

vendorLabel(vs) ==
    IF Len(vs) = 0 THEN "unknown"
    ELSE IF Len(vs) = 1 THEN vs[1]
    ELSE "mixed(" \o Join(vs) \o ")"

\* finish tolerating a single issue.
finish_OffByOne(allIssues, allVendors) ==
    IF Len(allIssues) > 1
      THEN [outcome |-> "EnvValidationError",
            thrown |-> [name |-> "EnvValidationError", issues |-> allIssues,
                        vendor |-> vendorLabel(allVendors)]]
      ELSE [outcome |-> "returned", thrown |-> Undefined]

\* What envParse does once processConfig has returned: the outcome and
\* the error thrown, if any.
finish(allIssues, allVendors) ==
    IF Len(allIssues) > 0
      THEN [outcome |-> "EnvValidationError",
            thrown |-> [name |-> "EnvValidationError", issues |-> allIssues,
                        vendor |-> vendorLabel(allVendors)]]
      ELSE [outcome |-> "returned", thrown |-> Undefined]

\* The traversal is complete: throw the aggregated error or return.
envParseEnd ==
    /\ Running
    /\ Len(stack) = 1
    /\ Top.i > Len(configObj)
    /\ stack' = <<>>
    /\ outcome' = finish(issues, vendors).outcome
    /\ thrown' = finish(issues, vendors).thrown
    /\ UNCHANGED <<config, env, result, issues, vendors, visited, earlier>>

Next ==
    \/ handleConfigProperty
    \/ handleConfigPropertyThrows
    \/ processConfigNested
    \/ processConfigReturn
    \/ envParseEnd

Spec == Init /\ [][Next]_vars

(* --------------------------- calls in sequence ------------------------- *)

\* The first of a sequence of calls.
InitCalls ==
    /\ config \in CallConfigs
    /\ env \in Envs
    /\ stack = <<Frame(<<>>)>>
    /\ result = EmptyObject
    /\ issues = <<>>
    /\ vendors = <<>>
    /\ outcome = "running"
    /\ thrown = Undefined
    /\ visited = <<>>
    /\ earlier = "none"

\* envParse keeping one vendor set for all calls.
envParseAgain_SharedVendors ==
    /\ outcome # "running"
    /\ config' \in CallConfigs
    /\ env' \in Envs
    /\ stack' = <<Frame(<<>>)>>
    /\ result' = EmptyObject
    /\ issues' = <<>>
    /\ vendors' = vendors
    /\ outcome' = "running"
    /\ thrown' = Undefined
    /\ visited' = <<>>
    /\ earlier' = outcome

\* envParse is called again once the call before has returned or thrown:
\* result, issues and vendors are created anew.
envParseAgain ==
    /\ outcome # "running"
    /\ config' \in CallConfigs
    /\ env' \in Envs
    /\ stack' = <<Frame(<<>>)>>
    /\ result' = EmptyObject
    /\ issues' = <<>>
    /\ vendors' = <<>>
    /\ outcome' = "running"
    /\ thrown' = Undefined
    /\ visited' = <<>>
    /\ earlier' = outcome

NextCalls ==
    \/ handleConfigProperty
    \/ handleConfigPropertyThrows
    \/ processConfigNested
    \/ processConfigReturn
    \/ envParseEnd
    \/ envParseAgain

SpecCalls == InitCalls /\ [][NextCalls]_vars

(* ------------------------- reading the definition ---------------------- *)

\* The leaves below entries, in definition-key order, depth-first, each
\* with the path of its output position.
RECURSIVE LeafSeq(_, _)
LeafSeq(entries, prefix) ==
    IF entries = <<>> THEN <<>>
    ELSE LET e == Head(entries)
             here == IF isConfigProperty(e.value)
                       THEN << [leaf |-> prefix \o <<e.key>>,
                                property |-> e.value] >>
                       ELSE LeafSeq(e.value.entries, prefix \o <<e.key>>)
         IN  here \o LeafSeq(Tail(entries), prefix)

Leaves == LeafSeq(config, <<>>)

LeafSet == { Leaves[i] : i \in DOMAIN Leaves }

\* obj.a.b...: undefined when the key is absent.
Read(obj, path) == IF HasAt(obj, path) THEN GetAt(obj, path) ELSE Undefined

Absent(l) == env[l.property.env] = Undefined

DefaultApplies(l) == Absent(l) /\ l.property.default # Undefined

OptionalAbsent(l) ==
    Absent(l) /\ l.property.default = Undefined /\ l.property.optional

RequiredMissing(l) ==
    Absent(l) /\ l.property.default = Undefined /\ ~l.property.optional

\* What the adapter of leaf l answers to the value of its variable.
Answer(l) ==
    Validate(l.property.format.standard.validate, env[l.property.env].value)

\* The variable of l is present and its adapter reports success.
Succeeds(l) ==
    /\ ~Absent(l)
    /\ l.property.format.standard # Undefined
    /\ l.property.format.standard.validate # "missing"
    /\ Answer(l) \notin {Undefined, PromiseValue}
    /\ "issues" \notin DOMAIN Answer(l)

Aborted == outcome \in {"AsyncValidationError", "TypeError"}

RequiredMessage(name) ==
    <<"Required environment variable ", name,
      " is not set and no default provided">>

(* ------------------------------- claims -------------------------------- *)

C2_ValidatedValue ==
    outcome = "returned" =>
        \A l \in LeafSet :
            Succeeds(l) =>
                /\ Read(result, l.leaf) = Answer(l).value
                /\ Answer(l).value # Undefined => HasAt(result, l.leaf)

C2_Witness ==
    /\ outcome = "returned"
    /\ \E l \in LeafSet :
          /\ Succeeds(l)
          /\ l.property.default # Undefined
          /\ Answer(l).value # l.property.default
          /\ Answer(l).value # env[l.property.env]
          /\ GetAt(result, l.leaf) = Num(3000)

\* C3: an optional leaf without default whose variable is absent records no
\* issue, and its key is never in the output object.
C3_OptionalOmitted ==
    /\ \A i \in DOMAIN visited :
          OptionalAbsent(visited[i]) =>
              /\ visited[i].issues = <<>>
              /\ ~HasAt(result, visited[i].leaf)
    /\ outcome # "running" =>
          /\ \A l \in LeafSet : OptionalAbsent(l) => ~HasAt(result, l.leaf)
          /\ (\A l \in LeafSet : OptionalAbsent(l)) => outcome = "returned"

C3_Witness ==
    /\ outcome = "returned"
    /\ \E i \in DOMAIN visited : OptionalAbsent(visited[i])
    /\ \E i \in DOMAIN visited : HasAt(result, visited[i].leaf)

\* C4 as stated: a call with a required leaf that has no default and no
\* variable always ends in an EnvValidationError naming that variable
\* (stated for the calls every adapter of which has a validate function).
C4_Original ==
    (/\ outcome \notin {"running", "TypeError"}
     /\ \E l \in LeafSet : RequiredMissing(l)) =>
        /\ outcome = "EnvValidationError"
        /\ \A l \in LeafSet :
              RequiredMissing(l) =>
                  \E i \in DOMAIN thrown.issues :
                      thrown.issues[i].path = <<l.property.env>>

\* C4: a call with a required leaf that has no default and no variable
\* never returns an object; unless a fault thrown while another leaf is
\* validated aborts it, it throws an EnvValidationError with an issue whose
\* path is the leaf's variable name.
C4_RequiredMissing ==
    (outcome # "running" /\ \E l \in LeafSet : RequiredMissing(l)) =>
        /\ outcome # "returned"
        /\ ~Aborted =>
              /\ outcome = "EnvValidationError"
              /\ \A l \in LeafSet :
                    RequiredMissing(l) =>
                        \E i \in DOMAIN thrown.issues :
                            /\ thrown.issues[i].path = <<l.property.env>>
                            /\ thrown.issues[i].message =
                                   RequiredMessage(l.property.env)

C4_Witness ==
    /\ outcome = "EnvValidationError"
    /\ \E l \in LeafSet : RequiredMissing(l)
    /\ \E l \in LeafSet : HasAt(result, l.leaf)
    /\ Len(thrown.issues) = 1

\* The vendor name the adapter of leaf l exposes, if it exposes one.
HasVendor(l) ==
    /\ l.property.format.standard # Undefined
    /\ l.property.format.standard.vendor.type = "string"

VendorOf(l) == l.property.format.standard.vendor.value

VendorNames == { VendorOf(l) : l \in { x \in LeafSet : HasVendor(x) } }

\* The position in the traversal of the first leaf exposing vendor v.
FirstLeafOf(v) ==
    CHOOSE i \in DOMAIN Leaves :
        /\ HasVendor(Leaves[i]) /\ VendorOf(Leaves[i]) = v
        /\ \A j \in 1..(i - 1) :
              ~(HasVendor(Leaves[j]) /\ VendorOf(Leaves[j]) = v)

\* C5: the label of a thrown EnvValidationError is "unknown" when no leaf
\* exposes a vendor name, the name itself when the leaves expose one
\* distinct name, and otherwise "mixed(...)" listing every distinct name
\* once, comma-joined, in order of first encounter.
C5_VendorLabel ==
    outcome = "EnvValidationError" =>
        /\ Len(vendors) = Cardinality(VendorNames)
        /\ { vendors[i] : i \in DOMAIN vendors } = VendorNames
        /\ \A i, j \in DOMAIN vendors :
              i < j => FirstLeafOf(vendors[i]) < FirstLeafOf(vendors[j])
        /\ Len(vendors) <= 3
        /\ Len(vendors) = 0 => thrown.vendor = "unknown"
        /\ Len(vendors) = 1 => thrown.vendor = vendors[1]
        /\ Len(vendors) = 2 =>
              thrown.vendor = "mixed(" \o vendors[1] \o "," \o vendors[2] \o ")"
        /\ Len(vendors) = 3 =>
              thrown.vendor = "mixed(" \o vendors[1] \o "," \o vendors[2]
                                  \o "," \o vendors[3] \o ")"

C5_Witness ==
    /\ outcome = "EnvValidationError"
    /\ thrown.vendor = "mixed(zod,arktype)"
    /\ Len(Leaves) = 3

\* C6: the vendor set holds the vendor name of every leaf visited so far,
\* whatever the leaf produced; so an error of a call whose leaves expose
\* two or more distinct names is labelled mixed even when the failing
\* leaves share one vendor.
C6_VendorsOfAllLeaves ==
    /\ \A i \in DOMAIN visited :
          HasVendor(visited[i]) =>
              \E j \in DOMAIN vendors : vendors[j] = VendorOf(visited[i])
    /\ (outcome = "EnvValidationError" /\ Cardinality(VendorNames) >= 2) =>
          thrown.vendor \notin VendorNames \cup {"unknown"}

C6_Witness ==
    /\ outcome = "EnvValidationError"
    /\ \A i \in DOMAIN visited :
          visited[i].issues # <<>> =>
              HasVendor(visited[i]) /\ VendorOf(visited[i]) = "zod"
    /\ \E i \in DOMAIN visited :
          DefaultApplies(visited[i]) /\ VendorOf(visited[i]) = "arktype"
    /\ \E i \in DOMAIN visited :
          OptionalAbsent(visited[i]) /\ VendorOf(visited[i]) = "valibot"
    /\ thrown.vendor = "mixed(arktype,zod,valibot)"

\* The nested groups below entries, each with its path and its entries.
RECURSIVE GroupSet(_, _)
GroupSet(entries, prefix) ==
    UNION { IF isConfigProperty(entries[i].value)
              THEN {}
              ELSE { [path |-> prefix \o <<entries[i].key>>,
                      entries |-> entries[i].value.entries] }
                   \cup GroupSet(entries[i].value.entries,
                                 prefix \o <<entries[i].key>>)
            : i \in DOMAIN entries }

Groups == GroupSet(config, <<>>)

\* Every entry of group g is an optional leaf that is absent.
OnlyOptionalAbsent(g) ==
    \A i \in DOMAIN g.entries :
        /\ isConfigProperty(g.entries[i].value)
        /\ OptionalAbsent([leaf |-> g.path \o <<g.entries[i].key>>,
                           property |-> g.entries[i].value])

\* C7: after a successful call every nested group of the definition, at
\* every depth, is an object at its key in the output; it is the empty
\* object when the group holds nothing but optional leaves that are absent.
C7_GroupsMaterialized ==
    outcome = "returned" =>
        \A g \in Groups :
            /\ HasAt(result, g.path)
            /\ GetAt(result, g.path).type = "object"
            /\ OnlyOptionalAbsent(g) => GetAt(result, g.path) = EmptyObject

C7_Witness ==
    /\ outcome = "returned"
    /\ \E g \in Groups :
          /\ Len(g.path) = 2
          /\ g.entries # <<>>
          /\ OnlyOptionalAbsent(g)
          /\ GetAt(result, g.path) = EmptyObject

\* The entry keeps its key in the output: a group always, a leaf unless it
\* is optional and produced no value.
KeepsKey(e) ==
    \/ ~isConfigProperty(e.value)
    \/ ~e.value.optional
    \/ validateProperty(e.value, env).value # Undefined

RECURSIVE SameShape(_, _)
SameShape(entries, obj) ==
    /\ obj.type = "object"
    /\ DOMAIN obj.fields =
           { entries[i].key : i \in { j \in DOMAIN entries : KeepsKey(entries[j]) } }
    /\ \A i \in DOMAIN entries :
          ~isConfigProperty(entries[i].value) =>
              SameShape(entries[i].value.entries, obj.fields[entries[i].key])

\* C8: the object a successful call returns has, at every nesting level,
\* exactly the keys of the definition at that level except those of the
\* optional leaves that produced no value.
C8_SameShape == outcome = "returned" => SameShape(config, result)

C8_Witness ==
    /\ outcome = "returned"
    /\ \E g \in Groups :
          /\ Len(g.entries) = 2
          /\ \E i \in DOMAIN g.entries : ~KeepsKey(g.entries[i])
          /\ \E i \in DOMAIN g.entries :
                /\ isConfigProperty(g.entries[i].value)
                /\ KeepsKey(g.entries[i])

\* The issues leaf l records, from its property and the environment.
IssuesOf(l) == validateProperty(l.property, env).issues

FailingLeaves == { i \in DOMAIN Leaves : IssuesOf(Leaves[i]) # <<>> }

RECURSIVE Flatten(_)
Flatten(seqs) ==
    IF seqs = <<>> THEN <<>> ELSE Head(seqs) \o Flatten(Tail(seqs))

\* C9 as stated: the error of a call with N failing leaves holds exactly
\* N issues.
C9_Original ==
    outcome = "EnvValidationError" =>
        Len(thrown.issues) = Cardinality(FailingLeaves)

\* C9: a call that completes its traversal has checked every leaf; when N
\* of them fail it throws one EnvValidationError whose issues are, leaf
\* after leaf, all the issues each failing leaf recorded: at least N, and
\* exactly N when every failing leaf recorded a single issue.
C9_IssuesAggregated ==
    /\ outcome \in {"returned", "EnvValidationError"} =>
          /\ Len(visited) = Len(Leaves)
          /\ \A i \in DOMAIN visited :
                /\ visited[i].leaf = Leaves[i].leaf
                /\ visited[i].property = Leaves[i].property
                /\ visited[i].issues = IssuesOf(Leaves[i])
          /\ FailingLeaves # {} => outcome = "EnvValidationError"
    /\ outcome = "EnvValidationError" =>
          /\ thrown.issues = Flatten([i \in DOMAIN Leaves |-> IssuesOf(Leaves[i])])
          /\ Len(thrown.issues) >= Cardinality(FailingLeaves)
          /\ (\A i \in FailingLeaves : Len(IssuesOf(Leaves[i])) = 1) =>
                Len(thrown.issues) = Cardinality(FailingLeaves)

C9_Witness ==
    /\ outcome = "EnvValidationError"
    /\ Cardinality(FailingLeaves) = 3
    /\ Len(thrown.issues) = 3
    /\ \E i, j \in FailingLeaves :
          RequiredMissing(Leaves[i]) /\ ~Absent(Leaves[j])

\* C10: envParse returns only with an empty issue list and every leaf
\* visited, and throws EnvValidationError, carrying the issue list and the
\* vendor label, only with a non-empty one; nothing is returned or thrown
\* while the traversal runs.
C10_ReturnIffNoIssues ==
    /\ outcome = "returned" =>
          /\ issues = <<>>
          /\ thrown = Undefined
          /\ Len(visited) = Len(Leaves)
    /\ outcome = "EnvValidationError" =>
          /\ issues # <<>>
          /\ thrown = [name |-> "EnvValidationError", issues |-> issues,
                       vendor |-> vendorLabel(vendors)]
          /\ Len(visited) = Len(Leaves)
    /\ outcome = "running" => thrown = Undefined /\ stack # <<>>

C10_Witness ==
    /\ outcome = "EnvValidationError"
    /\ Len(issues) = 1
    /\ result # EmptyObject

\* The position of a key in the order the definitions list their keys.
KeyIndex(k) == CHOOSE n \in DOMAIN Keys : Keys[n] = k

\* Path p comes before path q in a depth-first walk in key order.
RECURSIVE Before(_, _)
Before(p, q) ==
    /\ p # <<>>
    /\ q # <<>>
    /\ \/ KeyIndex(Head(p)) < KeyIndex(Head(q))
       \/ Head(p) = Head(q) /\ Before(Tail(p), Tail(q))

\* Path p lies inside the group at path g.
Inside(p, g) == Len(p) > Len(g) /\ SubSeq(p, 1, Len(g)) = g

\* C11: the leaves are visited in definition-key order, depth-first, the
\* leaves of a nested group in one run between the keys before and after
\* the group; the issues of a thrown EnvValidationError are the visited
\* leaves' issues in that order, those an adapter reported for one leaf
\* next to each other and in the order the adapter gave them.
C11_TraversalOrder ==
    /\ \A i, j \in DOMAIN visited :
          i < j => Before(visited[i].leaf, visited[j].leaf)
    /\ \A i, j, k \in DOMAIN visited :
          i < j /\ j < k =>
              \A n \in 1..(Len(visited[i].leaf) - 1) :
                  LET g == SubSeq(visited[i].leaf, 1, n)
                  IN  Inside(visited[k].leaf, g) => Inside(visited[j].leaf, g)
    /\ outcome = "EnvValidationError" =>
          /\ thrown.issues = Flatten([i \in DOMAIN visited |-> visited[i].issues])
          /\ \A i \in DOMAIN visited :
                visited[i].called /\ visited[i].issues # <<>> =>
                    /\ Len(visited[i].issues) = Len(Answer(visited[i]).issues)
                    /\ \A n \in DOMAIN visited[i].issues :
                          visited[i].issues[n].message =
                              <<visited[i].property.env, ": ">>
                                  \o Answer(visited[i]).issues[n].message

C11_Witness ==
    /\ outcome = "EnvValidationError"
    /\ Len(visited) = 2
    /\ Len(visited[1].leaf) = 2
    /\ Len(visited[1].issues) = 2
    /\ visited[1].called
    /\ Len(visited[2].leaf) = 1
    /\ Len(visited[2].issues) = 1
    /\ Len(thrown.issues) = 3
    /\ thrown.issues[3] = visited[2].issues[1]

\* The variable of l is present and its adapter answers with a promise.
Promised(l) ==
    /\ ~Absent(l)
    /\ l.property.format.standard # Undefined
    /\ l.property.format.standard.validate # "missing"
    /\ Answer(l) = PromiseValue

\* C12: a visited leaf whose validate returns a promise is the last leaf
\* visited: the call has ended there with an AsyncValidationError that
\* carries no issues, whatever was collected before, and a call ends with
\* AsyncValidationError only in this way.
C12_AsyncAborts ==
    /\ \A i \in DOMAIN visited :
          Promised(visited[i]) =>
              /\ i = Len(visited)
              /\ visited[i].called
              /\ stack = <<>>
              /\ outcome = "AsyncValidationError"
              /\ thrown = [name |-> "AsyncValidationError"]
    /\ outcome = "AsyncValidationError" =>
          /\ visited # <<>>
          /\ Promised(visited[Len(visited)])
          /\ "issues" \notin DOMAIN thrown

C12_Witness ==
    /\ outcome = "AsyncValidationError"
    /\ issues # <<>>
    /\ Len(visited) = 2
    /\ Len(Leaves) = 3
    /\ IssuesOf(Leaves[3]) # <<>>

\* The adapter of l has no validate function: no capability descriptor at
\* all, or a descriptor without validate.
Malformed(l) ==
    \/ l.property.format.standard = Undefined
    \/ l.property.format.standard.validate = "missing"

\* C13 as stated: a visited leaf whose variable is present and whose
\* adapter has no validate function records the single non-compliant
\* issue and the traversal goes on; the call ends with no fault other than
\* EnvValidationError and AsyncValidationError.
C13_Original ==
    /\ \A i \in DOMAIN visited :
          Malformed(visited[i]) /\ ~Absent(visited[i]) =>
              /\ visited[i].issues = <<notCompliant(visited[i].property)>>
              /\ \E k \in DOMAIN issues :
                    issues[k] = notCompliant(visited[i].property)
    /\ outcome \in {"running", "returned", "EnvValidationError",
                    "AsyncValidationError"}

\* The message, a sequence of fragments, has name as one of them.
Mentions(message, name) == \E n \in DOMAIN message : message[n] = name

\* C14: every issue of a thrown EnvValidationError was recorded by a
\* visited leaf and names that leaf's variable: its path starts with the
\* name and its message mentions it. An issue an adapter reported has the
\* adapter's path after the name, or the name alone when the adapter gave
\* no path, and the adapter's message after "<name>: "; the issue of a
\* required leaf without value has the path [name].
C14_IssuesNameVariable ==
    outcome = "EnvValidationError" =>
        /\ \A k \in DOMAIN thrown.issues :
              \E i \in DOMAIN visited :
                  \E n \in DOMAIN visited[i].issues :
                      visited[i].issues[n] = thrown.issues[k]
        /\ \A i \in DOMAIN visited :
              LET name == visited[i].property.env
              IN  /\ \A n \in DOMAIN visited[i].issues :
                        /\ Head(visited[i].issues[n].path) = name
                        /\ Mentions(visited[i].issues[n].message, name)
                  /\ visited[i].called =>
                        \A n \in DOMAIN visited[i].issues :
                            LET theirs == Answer(visited[i]).issues[n]
                                ours == visited[i].issues[n]
                            IN  /\ ours.path =
                                      IF "path" \in DOMAIN theirs
                                        THEN <<name>> \o theirs.path
                                        ELSE <<name>>
                                /\ ours.message = <<name, ": ">> \o theirs.message
                  /\ RequiredMissing(visited[i]) =>
                        /\ Len(visited[i].issues) = 1
                        /\ visited[i].issues[1].path = <<name>>

C14_Witness ==
    /\ outcome = "EnvValidationError"
    /\ \E i, j \in DOMAIN visited :
          /\ RequiredMissing(visited[i])
          /\ visited[j].called
          /\ Len(visited[j].issues) = 2
          /\ Len(visited[j].issues[1].path) = 2
          /\ Len(visited[j].issues[2].path) = 1

RECURSIVE IssueCount(_)
IssueCount(visits) ==
    IF visits = <<>> THEN 0
    ELSE Len(Head(visits).issues) + IssueCount(Tail(visits))

\* C15 as stated: whenever a call ends abnormally, every issue recorded
\* for a visited leaf is among the issues of the error thrown. (The fault
\* of an adapter without validate is left aside here.)
C15_Original ==
    outcome \in {"EnvValidationError", "AsyncValidationError"} =>
        \A i \in DOMAIN visited :
            \A n \in DOMAIN visited[i].issues :
                /\ "issues" \in DOMAIN thrown
                /\ \E k \in DOMAIN thrown.issues :
                      thrown.issues[k] = visited[i].issues[n]

\* C15: every issue recorded for a visited leaf, one per adapter issue,
\* one for a required leaf without value, one for a format without
\* descriptor, is kept in the call's issue list; a call that ends
\* with EnvValidationError has visited every leaf and its error holds all
\* of them and nothing else, while the fault of an aborted call carries no
\* issues.
C15_NothingDropped ==
    /\ \A i \in DOMAIN visited :
          /\ \A n \in DOMAIN visited[i].issues :
                \E k \in DOMAIN issues : issues[k] = visited[i].issues[n]
          /\ visited[i].called /\ ~Promised(visited[i])
               /\ "issues" \in DOMAIN Answer(visited[i]) =>
                 Len(visited[i].issues) = Len(Answer(visited[i]).issues)
          /\ RequiredMissing(visited[i]) => Len(visited[i].issues) = 1
          /\ visited[i].property.format.standard = Undefined
               /\ ~Absent(visited[i]) => Len(visited[i].issues) = 1
    /\ Len(issues) = IssueCount(visited)
    /\ outcome = "EnvValidationError" =>
          /\ Len(visited) = Len(Leaves)
          /\ Len(thrown.issues) = IssueCount(visited)
          /\ \A i \in DOMAIN visited :
                \A n \in DOMAIN visited[i].issues :
                    \E k \in DOMAIN thrown.issues :
                        thrown.issues[k] = visited[i].issues[n]
    /\ Aborted => "issues" \notin DOMAIN thrown

C15_Witness ==
    /\ outcome = "EnvValidationError"
    /\ \E i, j, k \in DOMAIN visited :
          /\ Len(visited[i].issues) = 2
          /\ RequiredMissing(visited[j])
          /\ visited[k].property.format.standard = Undefined
          /\ Len(visited[k].issues) = 1
    /\ Len(thrown.issues) = 4

\* Visit i ended in a throw: it is the last visit of an aborted call.
Threw(i) == Aborted /\ i = Len(visited)

\* C16: once a leaf has been handled without an issue, its key is in the
\* output exactly when its value is defined or the leaf is not optional,
\* and then holds that value: a required leaf validated to undefined is
\* present with the value undefined, an optional one is left out.
C16_KeyWritten ==
    \A i \in DOMAIN visited :
        visited[i].issues = <<>> /\ ~Threw(i) =>
            LET value == validateProperty(visited[i].property, env).value
            IN  /\ HasAt(result, visited[i].leaf) <=>
                      (value # Undefined \/ ~visited[i].property.optional)
                /\ HasAt(result, visited[i].leaf) =>
                      GetAt(result, visited[i].leaf) = value

C16_Witness ==
    /\ outcome = "returned"
    /\ \E i, j \in DOMAIN visited :
          /\ visited[i].called
          /\ ~visited[i].property.optional
          /\ HasAt(result, visited[i].leaf)
          /\ GetAt(result, visited[i].leaf) = Undefined
          /\ visited[j].called
          /\ visited[j].property.optional
          /\ ~HasAt(result, visited[j].leaf)

\* C17 as stated: a call that has ended otherwise than with
\* AsyncValidationError has visited every leaf of the definition exactly
\* once, in one pass in the order of the definition, and has invoked a
\* leaf's validate function at most once, and only for a variable that is
\* present.
C17_Original ==
    /\ \A i \in DOMAIN visited : visited[i].called => ~Absent(visited[i])
    /\ outcome \notin {"running", "AsyncValidationError"} =>
          /\ Len(visited) = Len(Leaves)
          /\ \A i \in DOMAIN visited :
                /\ visited[i].leaf = Leaves[i].leaf
                /\ visited[i].property = Leaves[i].property

\* C18: no step of envParse changes the environment map or the definition
\* tree, with every leaf's property record and adapter in it; what a call
\* writes is its own result object, issue list and vendor set.
C18_InputsUnchanged == [][config' = config /\ env' = env]_vars

C18_Witness ==
    /\ outcome = "EnvValidationError"
    /\ result # EmptyObject
    /\ issues # <<>>
    /\ Len(vendors) = 2
    /\ \E i \in DOMAIN visited : DefaultApplies(visited[i])

\* The variable of l is present and its adapter reports at least one issue.
Invalid(l) ==
    /\ ~Absent(l)
    /\ l.property.format.standard # Undefined
    /\ l.property.format.standard.validate # "missing"
    /\ Answer(l) \notin {Undefined, PromiseValue}
    /\ "issues" \in DOMAIN Answer(l)
    /\ Answer(l).issues # <<>>

\* C20: a visited leaf whose variable is present and fails validation,
\* with or without a default, optional or not, has put its issues, one
\* per adapter issue, on the call's issue list and has written nothing to
\* the output; a call whose definition has such a leaf never returns, and
\* when it ends with EnvValidationError the error holds the leaf's issues.
C20_InvalidAlwaysFails ==
    /\ \A i \in DOMAIN visited :
          Invalid(visited[i]) =>
              /\ visited[i].issues =
                     scopeIssues(visited[i].property, Answer(visited[i]).issues)
              /\ \A n \in DOMAIN visited[i].issues :
                    \E k \in DOMAIN issues : issues[k] = visited[i].issues[n]
              /\ ~HasAt(result, visited[i].leaf)
              /\ outcome # "returned"
    /\ outcome = "returned" => \A l \in LeafSet : ~Invalid(l)
    /\ outcome = "EnvValidationError" =>
          \A i \in DOMAIN visited :
              Invalid(visited[i]) =>
                  \A n \in DOMAIN visited[i].issues :
                      \E k \in DOMAIN thrown.issues :
                          thrown.issues[k] = visited[i].issues[n]

C20_Witness ==
    /\ outcome = "EnvValidationError"
    /\ \E i, j \in DOMAIN visited :
          /\ Invalid(visited[i])
          /\ visited[i].property.default # Undefined
          /\ Invalid(visited[j])
          /\ visited[j].property.optional
    /\ \A i \in DOMAIN visited : Invalid(visited[i])

\* The vendor set after the leaves of visits, in order, from before.
RECURSIVE VendorsAfter(_, _)
VendorsAfter(visits, before) ==
    IF visits = <<>> THEN before
    ELSE VendorsAfter(Tail(visits), recordVendor(Head(visits).property, before))

\* The leaves whose validateProperty call throws, by position.
ThrowingLeaves ==
    { i \in DOMAIN Leaves :
        validateProperty(Leaves[i].property, env).kind # "return" }

\* How a call with this definition and this environment ends.
ExpectedOutcome ==
    IF ThrowingLeaves # {}
      THEN LET first == CHOOSE i \in ThrowingLeaves :
                            \A j \in ThrowingLeaves : i <= j
           IN  validateProperty(Leaves[first].property, env).kind
    ELSE IF FailingLeaves # {} THEN "EnvValidationError"
    ELSE "returned"

\* C19: in every call of a sequence of calls, whatever the calls before
\* were and however they ended, the issue list and the vendor set hold
\* only what the leaves visited in this call recorded, and the way the call
\* ends, the object it returns and the issues and vendor label of its
\* error are those its own definition and environment determine.
C19_CallsIndependent ==
    /\ issues = Flatten([i \in DOMAIN visited |-> visited[i].issues])
    /\ vendors = VendorsAfter(visited, <<>>)
    /\ outcome # "running" =>
          /\ outcome = ExpectedOutcome
          /\ outcome = "returned" =>
                /\ SameShape(config, result)
                /\ \A l \in LeafSet :
                      Read(result, l.leaf) = validateProperty(l.property, env).value
          /\ outcome = "EnvValidationError" =>
                /\ thrown.issues =
                       Flatten([i \in DOMAIN Leaves |-> IssuesOf(Leaves[i])])
                /\ thrown.vendor = vendorLabel(VendorsAfter(Leaves, <<>>))
          /\ Aborted => thrown = [name |-> outcome]

C19_Witness ==
    /\ earlier = "EnvValidationError"
    /\ outcome = "EnvValidationError"
    /\ thrown.vendor = "arktype"
    /\ Len(thrown.issues) = 1

\* The format of l has a capability descriptor with a validate function.
WellFormed(l) == ~Malformed(l)

\* C21: a leaf's validate function is invoked exactly when its variable
\* is not undefined (and there is a validate function); for a variable set
\* to the empty string the adapter decides: the leaf records the adapter's
\* issues or holds the adapter's value, never the required-missing issue
\* and never its default, and an optional leaf is not skipped.
C21_EmptyStringPresent ==
    \A i \in DOMAIN visited :
        /\ visited[i].called <=> (~Absent(visited[i]) /\ WellFormed(visited[i]))
        /\ env[visited[i].property.env] = Str("") /\ WellFormed(visited[i])
             /\ ~Promised(visited[i]) =>
               LET p == visited[i].property
                   answer == Validate(p.format.standard.validate, "")
               IN  /\ \A n \in DOMAIN visited[i].issues :
                         visited[i].issues[n].message # RequiredMessage(p.env)
                   /\ "issues" \in DOMAIN answer =>
                         /\ visited[i].issues = scopeIssues(p, answer.issues)
                         /\ answer.issues # <<>> => ~HasAt(result, visited[i].leaf)
                   /\ "issues" \notin DOMAIN answer =>
                         /\ visited[i].issues = <<>>
                         /\ Read(result, visited[i].leaf) = answer.value
                   /\ p.default # Undefined =>
                         Read(result, visited[i].leaf) # p.default

C21_Witness ==
    /\ outcome = "EnvValidationError"
    /\ env.PORT = Str("")
    /\ \E i, j \in DOMAIN visited :
          /\ visited[i].property.default # Undefined
          /\ visited[i].called
          /\ Len(visited[i].issues) = 2
          /\ visited[j].property.optional
          /\ visited[j].property.env = "PORT"
          /\ visited[j].called
          /\ visited[j].issues = <<>>

\* The variable of l is present and its adapter answers with an issue
\* list that is there but empty.
EmptyIssues(l) ==
    /\ ~Absent(l)
    /\ WellFormed(l)
    /\ Answer(l) \notin {Undefined, PromiseValue}
    /\ "issues" \in DOMAIN Answer(l)
    /\ Answer(l).issues = <<>>

\* C22: a visited leaf whose adapter answers with an empty issue list
\* has recorded no issue and produced no value: a required leaf has its key
\* in the output with the value undefined, an optional leaf has no key, and
\* the value of the adapter's result is nowhere in the output; a call all
\* of whose leaves otherwise succeed returns.
C22_EmptyIssueList ==
    /\ \A i \in DOMAIN visited :
          EmptyIssues(visited[i]) =>
              /\ visited[i].issues = <<>>
              /\ visited[i].called
              /\ validateProperty(visited[i].property, env).value = Undefined
              /\ ~visited[i].property.optional =>
                    /\ HasAt(result, visited[i].leaf)
                    /\ GetAt(result, visited[i].leaf) = Undefined
              /\ visited[i].property.optional => ~HasAt(result, visited[i].leaf)
              /\ "value" \in DOMAIN Answer(visited[i]) =>
                    Read(result, visited[i].leaf) # Answer(visited[i]).value
    /\ outcome # "running"
         /\ (\A l \in LeafSet : EmptyIssues(l) \/ Succeeds(l) \/ DefaultApplies(l)
                                  \/ OptionalAbsent(l)) =>
           outcome = "returned"

C22_Witness ==
    /\ outcome = "returned"
    /\ \E i, j \in DOMAIN visited :
          /\ EmptyIssues(visited[i])
          /\ ~visited[i].property.optional
          /\ Answer(visited[i]).value # Undefined
          /\ HasAt(result, visited[i].leaf)
          /\ EmptyIssues(visited[j])
          /\ visited[j].property.optional

====
